---- MODULE Spec2Model ----
(***************************************************************************)
(* Model of the Kernel app "profile-auth-and-task-execution"               *)
(* (src/index.ts): the four actions create-profile-browser,                *)
(* end-session-and-save-profile, execute-task-with-profile and             *)
(* get-payload-schemas, run as concurrent invocations against the Kernel   *)
(* browser service and the Magnitude browser agent.                        *)
(*                                                                         *)
(* Every `await` of the source is one step of an invocation: the external  *)
(* call is issued, takes effect in the service and resolves or rejects.    *)
(* Steps of different invocations interleave freely.                       *)
(***************************************************************************)
EXTENDS Integers, Sequences, FiniteSets, TLC

\* ------------------------------------------------------------------ bounds
MaxInv == 2       \* invocations per behaviour, all of which may run at once
MaxTime == 1      \* Date.now() ranges over 0..MaxTime
MaxRand == 1      \* Math.random() yields one of MaxRand strings

Inv == 1..MaxInv

\* ------------------------------------------------------------- JS values
Undefined == "undefined"
Null == "null"
EmptyStr == ""

\* JavaScript truthiness of the values used here (strings, undefined, null).
Truthy(v) == v \notin {Undefined, Null, EmptyStr}

\* `a || b`
OrElse(a, b) == IF Truthy(a) THEN a ELSE b

NoPayload == [none |-> TRUE]
NoResult == [none |-> TRUE]
NoBrowser == [session_id |-> Undefined, cdp_ws_url |-> Undefined]

VARIABLES invs, sessions, profiles, clock, apiKey

vars == <<invs, sessions, profiles, clock, apiKey>>

\* ----------------------------------------------------- invocation record
IdleInv ==
    [op |-> "none", pc |-> "idle", payload |-> NoPayload,
     timestamp |-> 0, randomStr |-> Undefined,
     profileName |-> Undefined, kernelBrowser |-> NoBrowser, agent |-> FALSE,
     result |-> Undefined, extractedData |-> Undefined, pending |-> NoResult,
     outcome |-> "pending", ret |-> NoResult, thrown |-> Undefined,
     log |-> <<>>, stop |-> "none"]

\* One external call as recorded in an invocation's log.
Call(name, arg, res) == [call |-> name, arg |-> arg, res |-> res]

\* How a call that resolved (TRUE) or rejected (FALSE) is logged.
Res(ok) == IF ok THEN "ok" ELSE "Error"

Logged(i, name, arg, res) == Append(invs[i].log, Call(name, arg, res))

CallsOf(i, name) == {k \in 1..Len(invs[i].log) : invs[i].log[k].call = name}

Count(i, name) == Cardinality(CallsOf(i, name))

\* The dispatcher starts invocation i; invocations are numbered in the order
\* they start.
CanInvoke(i) ==
    /\ invs[i].op = "none"
    /\ \A j \in DOMAIN invs : j < i => invs[j].op # "none"

Upd(i, r) == invs' = [invs EXCEPT ![i] = r]

\* ------------------------------------------ Kernel service and the agent
\* Date.now() and Math.random().toString(36).substring(2, 8)
RandomStr(r) == "r" \o ToString(r)

RandomStrs == {RandomStr(r) : r \in 0..(MaxRand - 1)}

\* Faulty variant: the timestamp is left out of the name.
ProfileNameOfMutant(timestamp, randomStr) == "profile_" \o randomStr

\* `profile_${timestamp}_${randomStr}`
ProfileNameOf(timestamp, randomStr) ==
    "profile_" \o ToString(timestamp) \o "_" \o randomStr

\* Session identifiers handed out by the service.
SessionId(n) == "S" \o ToString(n)

IsOpen(sid) ==
    \E k \in DOMAIN sessions : sessions[k].session_id = sid /\ sessions[k].open

\* kernel.browsers.create: the session the service opens.
NewSession(i, name, save) ==
    [session_id |-> SessionId(Len(sessions) + 1), profile |-> name,
     save_changes |-> save, stealth |-> TRUE, open |-> TRUE,
     invocation_id |-> i]

\* The response of kernel.browsers.create; a headless browser has no live view.
BrowserResponses(sid) ==
    {[session_id |-> sid, cdp_ws_url |-> "ws://" \o sid,
      browser_live_view_url |-> u] : u \in {Undefined, "https://live/" \o sid}}

\* kernel.browsers.deleteByID resolves for an open session, or rejects (the
\* service fails and the session stays open; an unknown or closed session is
\* not found).
DeleteOutcomes(sid) == IF IsOpen(sid) THEN {TRUE, FALSE} ELSE {FALSE}

SessionsAfterDelete(sid) ==
    [k \in DOMAIN sessions |->
        IF sessions[k].session_id = sid
        THEN [sessions[k] EXCEPT !.open = FALSE] ELSE sessions[k]]

\* A session created with save_changes commits its state to the profile when
\* it terminates; one created without leaves the profile as it was.
ProfilesAfterDelete(sid) ==
    [n \in DOMAIN profiles |->
        IF \E k \in DOMAIN sessions :
              /\ sessions[k].session_id = sid
              /\ sessions[k].open
              /\ sessions[k].save_changes
              /\ sessions[k].profile = n
        THEN profiles[n] + 1 ELSE profiles[n]]

DeleteByID(sid, ok) ==
    IF ok
    THEN /\ sessions' = SessionsAfterDelete(sid)
         /\ profiles' = ProfilesAfterDelete(sid)
    ELSE UNCHANGED <<sessions, profiles>>

\* Values agent.act and agent.extract resolve with.
ActResults == {"act-result"}

ExtractResults == {"extracted"}

\* ------------------------------------------------ create-profile-browser
\* Faulty variants of the catch block: one swallows every error, one rethrows
\* every error.
ProfileErrorSwallowedAlways(err) == TRUE

ProfileErrorSwallowedNever(err) == FALSE

\* catch (error): a ConflictError is logged, anything else is rethrown.
ProfileErrorSwallowed(err) == err = "ConflictError"

\* Faulty variant: the profile browser does not save.
CreateSaveChangesMutant == FALSE

\* profile: { name: profileName, save_changes: true }
CreateSaveChanges == TRUE

CreateProfileBrowserOutputMutant(kb, profileName) ==
    [browser_live_view_url |-> OrElse(kb.browser_live_view_url, EmptyStr),
     profile_name |-> profileName,
     session_id |-> OrElse(kb.cdp_ws_url, EmptyStr)]

CreateProfileBrowserOutput(kb, profileName) ==
    [browser_live_view_url |-> OrElse(kb.browser_live_view_url, EmptyStr),
     profile_name |-> profileName,
     session_id |-> OrElse(kb.session_id, EmptyStr)]

Throw(i, r, msg) ==
    Upd(i, [r EXCEPT !.pc = "done", !.outcome = "thrown", !.thrown = msg])

\* Faulty variant: the handler reaches its return statement but its promise
\* never settles.
ReturnMutant(i, r, value) ==
    Upd(i, [r EXCEPT !.pc = "done", !.ret = value])

Return(i, r, value) ==
    Upd(i, [r EXCEPT !.pc = "done", !.outcome = "returned", !.ret = value])

CreateProfileBrowserInvoke(i) ==
    /\ CanInvoke(i)
    /\ \E randomStr \in RandomStrs :
          Upd(i, [IdleInv EXCEPT !.op = "create-profile-browser",
                                 !.pc = "profiles.create",
                                 !.timestamp = clock,
                                 !.randomStr = randomStr,
                                 !.profileName = ProfileNameOf(clock, randomStr)])
    /\ UNCHANGED <<sessions, profiles, clock, apiKey>>

\* await kernel.profiles.create({ name: profileName }) with its catch block
CreateProfilesCreate(i) ==
    /\ invs[i].op = "create-profile-browser"
    /\ invs[i].pc = "profiles.create"
    /\ LET name == invs[i].profileName
           after(res) == [invs[i] EXCEPT
                            !.log = Logged(i, "profiles.create", name, res)]
       IN \E res \in {"ok", "ConflictError", "Error"} :
            /\ res = "ok" => name \notin DOMAIN profiles
            /\ res = "ConflictError" => name \in DOMAIN profiles
            /\ profiles' = IF res = "ok" THEN profiles @@ (name :> 0) ELSE profiles
            /\ IF res = "ok" \/ ProfileErrorSwallowed(res)
               THEN Upd(i, [after(res) EXCEPT !.pc = "browsers.create"])
               ELSE Throw(i, after(res), "profiles.create failed")
    /\ UNCHANGED <<sessions, clock, apiKey>>

\* await kernel.browsers.create({...}) and the return statement
CreateBrowsersCreate(i) ==
    /\ invs[i].op = "create-profile-browser"
    /\ invs[i].pc = "browsers.create"
    /\ LET name == invs[i].profileName
           s == NewSession(i, name, CreateSaveChanges)
           after(ok) == [invs[i] EXCEPT
                           !.log = Logged(i, "browsers.create", name, ok)]
       IN \/ \E kb \in BrowserResponses(s.session_id) :
                /\ sessions' = Append(sessions, s)
                /\ Return(i, [after("ok") EXCEPT !.kernelBrowser =
                                 [session_id |-> kb.session_id,
                                  cdp_ws_url |-> kb.cdp_ws_url]],
                          CreateProfileBrowserOutput(kb, name))
          \/ /\ UNCHANGED sessions
             /\ Throw(i, after("Error"), "browsers.create failed")
    /\ UNCHANGED <<profiles, clock, apiKey>>

\* ------------------------------------------ end-session-and-save-profile
\* Session identifiers a caller may pass: those handed out so far and the
\* next one, not handed out yet.
KnownSessionIds == {SessionId(n) : n \in 1..(Len(sessions) + 1)}

EndPayloads ==
    {NoPayload}
        \cup {[session_id |-> v] : v \in {Undefined, EmptyStr} \cup KnownSessionIds}

\* Faulty variant: only the payload itself is checked.
EndPayloadMissingMutant(payload) == payload = NoPayload

\* if (!payload || !payload.session_id)
EndPayloadMissing(payload) ==
    payload = NoPayload \/ ~Truthy(payload.session_id)

\* Faulty variant: the catch block does not return.
EndSessionOutputMutant(deleted) == [success |-> TRUE]

\* The operation's result, from whether deleteByID resolved.
EndSessionOutput(deleted) == [success |-> deleted]

\* The handler runs with `payload` up to its first await.
EndSessionStart(i, payload) ==
    /\ CanInvoke(i)
    /\ LET r == [IdleInv EXCEPT !.op = "end-session-and-save-profile",
                                !.payload = payload]
       IN IF EndPayloadMissing(payload)
          THEN Return(i, r, EndSessionOutput(FALSE))
          ELSE Upd(i, [r EXCEPT !.pc = "deleteByID"])
    /\ UNCHANGED <<sessions, profiles, clock, apiKey>>

EndSessionInvoke(i) == \E payload \in EndPayloads : EndSessionStart(i, payload)

\* await kernel.browsers.deleteByID(session_id) with its catch block
EndDeleteByID(i) ==
    /\ invs[i].op = "end-session-and-save-profile"
    /\ invs[i].pc = "deleteByID"
    /\ LET sid == invs[i].payload.session_id
       IN \E ok \in DeleteOutcomes(sid) :
            /\ DeleteByID(sid, ok)
            /\ Return(i, [invs[i] EXCEPT !.log = Logged(i, "deleteByID", sid, Res(ok))],
                      EndSessionOutput(ok))
    /\ UNCHANGED <<clock, apiKey>>

\* --------------------------------------------- execute-task-with-profile
\* Values a caller passes: an absent field is undefined; the profile name is the
\* one create-profile-browser generates first.
ExecProfileNames == {Undefined, ProfileNameOf(0, RandomStr(0))}

ExecUrls == {Undefined}

ExecPayloads ==
    {NoPayload}
        \cup [profile_name : ExecProfileNames,
              task : {Undefined, "task"},
              url : ExecUrls,
              extract_instructions : {Undefined, "instructions"}]

\* Faulty variant: the extraction runs whether or not it was asked for.
ExtractRequestedMutant(instr) == TRUE

\* if (extract_instructions)
ExtractRequested(instr) == Truthy(instr)

\* if (!payload)
ExecPayloadMissing(payload) == payload = NoPayload

\* Faulty variant: the key is not checked.
ApiKeyMissingMutant(key) == FALSE

\* if (!process.env.ANTHROPIC_API_KEY)
ApiKeyMissing(key) == ~key

\* Faulty variant: the task browser saves its changes to the profile.
ExecSaveChangesMutant == TRUE

\* profile: { name: profile_name, save_changes: false }
ExecSaveChanges == FALSE

ExecEarlyOutput(msg) == [success |-> FALSE, error |-> msg]

\* return { success: true, task_result, extracted_data, session_id }
ExecSuccessOutputMutant(result, extractedData, kb) ==
    [success |-> TRUE, task_result |-> result,
     extracted_data |-> extractedData, session_id |-> Undefined]

ExecSuccessOutput(result, extractedData, kb) ==
    [success |-> TRUE, task_result |-> result,
     extracted_data |-> extractedData, session_id |-> kb.session_id]

\* Faulty variant: the catch block leaves the session identifier out.
ExecFailureOutputMutant(msg, kb) ==
    [success |-> FALSE, error |-> msg, session_id |-> Undefined]

\* Faulty variant: the catch block reports success.
ExecFailureOutputSuccess(msg, kb) ==
    [success |-> TRUE, error |-> msg, session_id |-> kb.session_id]

\* catch (error): return { success: false, error, session_id }
ExecFailureOutput(msg, kb) ==
    [success |-> FALSE, error |-> msg, session_id |-> kb.session_id]

\* Faulty variant: the extraction error reaches the outer catch block.
ExtractFailureOutputMutant(result, extractedData, kb) ==
    [success |-> FALSE, error |-> "extract failed", session_id |-> kb.session_id]

\* catch (extractError): logged; the return statement of the try block follows.
ExtractFailureOutput(result, extractedData, kb) ==
    ExecSuccessOutput(result, extractedData, kb)

\* Faulty variant: the finally block never cleans up.
CleanupNeededMutant(kb) == FALSE

\* Faulty variant: the finally block cleans up whether or not a session exists.
CleanupNeededAlways(kb) == TRUE

\* finally: if (kernelBrowser?.session_id)
CleanupNeeded(kb) == Truthy(kb.session_id)

\* finally: agent.stop() follows the awaited deleteByID inside the same try
StopReached(deleted, agent) == deleted /\ agent

\* Faulty variant: a failed cleanup replaces the result.
FinallyOutputMutant(pending, deleted) ==
    IF deleted THEN pending
    ELSE [success |-> FALSE, error |-> "deleteByID failed"]

\* The value the operation returns once the finally block has run: the one the
\* return statement of the try or catch block produced.
FinallyOutput(pending, deleted) == pending

\* The try or catch block has produced `value`; the finally block follows.
EnterFinally(i, r, value) ==
    IF CleanupNeeded(r.kernelBrowser)
    THEN Upd(i, [r EXCEPT !.pc = "finally.deleteByID", !.pending = value])
    ELSE Return(i, [r EXCEPT !.pending = value], value)

\* The handler runs with `payload` up to its first await.
ExecuteTaskStart(i, payload) ==
    /\ CanInvoke(i)
    /\ LET r == [IdleInv EXCEPT !.op = "execute-task-with-profile",
                                !.payload = payload]
       IN IF ExecPayloadMissing(payload)
          THEN Return(i, r, ExecEarlyOutput(
                      "Payload is required with profile_name and task"))
          ELSE IF ApiKeyMissing(apiKey)
          THEN Return(i, r, ExecEarlyOutput(
                      "ANTHROPIC_API_KEY environment variable is not set"))
          ELSE Upd(i, [r EXCEPT !.pc = "browsers.create"])
    /\ UNCHANGED <<sessions, profiles, clock, apiKey>>

ExecuteTaskInvoke(i) == \E payload \in ExecPayloads : ExecuteTaskStart(i, payload)

\* kernelBrowser = await kernel.browsers.create({...})
ExecBrowsersCreate(i) ==
    /\ invs[i].op = "execute-task-with-profile"
    /\ invs[i].pc = "browsers.create"
    /\ LET name == invs[i].payload.profile_name
           s == NewSession(i, name, ExecSaveChanges)
           after(ok) == [invs[i] EXCEPT
                           !.log = Logged(i, "browsers.create", name, ok)]
       IN \/ /\ sessions' = Append(sessions, s)
             /\ Upd(i, [after("ok") EXCEPT
                          !.pc = "startBrowserAgent",
                          !.kernelBrowser = [session_id |-> s.session_id,
                                             cdp_ws_url |-> "ws://" \o s.session_id]])
          \/ /\ UNCHANGED sessions
             /\ EnterFinally(i, after("Error"),
                    ExecFailureOutput("browsers.create failed", invs[i].kernelBrowser))
    /\ UNCHANGED <<profiles, clock, apiKey>>

\* agent = await startBrowserAgent({ url: url || "", ... })
ExecStartBrowserAgent(i) ==
    /\ invs[i].op = "execute-task-with-profile"
    /\ invs[i].pc = "startBrowserAgent"
    /\ LET url == OrElse(invs[i].payload.url, EmptyStr)
           after(ok) == [invs[i] EXCEPT
                           !.log = Logged(i, "startBrowserAgent", url, ok)]
       IN \/ Upd(i, [after("ok") EXCEPT !.pc = "act", !.agent = TRUE])
          \/ EnterFinally(i, after("Error"),
                 ExecFailureOutput("startBrowserAgent failed", invs[i].kernelBrowser))
    /\ UNCHANGED <<sessions, profiles, clock, apiKey>>

\* const result = await agent.act(task), then either the extraction or the
\* return statement
ExecAct(i) ==
    /\ invs[i].op = "execute-task-with-profile"
    /\ invs[i].pc = "act"
    /\ LET task == invs[i].payload.task
           after(ok) == [invs[i] EXCEPT !.log = Logged(i, "act", task, ok)]
       IN \/ \E result \in ActResults :
                LET r == [after("ok") EXCEPT !.result = result,
                                             !.extractedData = Null]
                IN IF ExtractRequested(invs[i].payload.extract_instructions)
                   THEN Upd(i, [r EXCEPT !.pc = "extract"])
                   ELSE EnterFinally(i, r,
                            ExecSuccessOutput(result, Null, r.kernelBrowser))
          \/ EnterFinally(i, after("Error"),
                 ExecFailureOutput("act failed", invs[i].kernelBrowser))
    /\ UNCHANGED <<sessions, profiles, clock, apiKey>>

\* extractedData = await agent.extract(extract_instructions, flexibleSchema),
\* its catch block and the return statement
ExecExtract(i) ==
    /\ invs[i].op = "execute-task-with-profile"
    /\ invs[i].pc = "extract"
    /\ LET instr == invs[i].payload.extract_instructions
           after(ok) == [invs[i] EXCEPT !.log = Logged(i, "extract", instr, ok)]
       IN \/ \E data \in ExtractResults :
                LET r == [after("ok") EXCEPT !.extractedData = data]
                IN EnterFinally(i, r,
                       ExecSuccessOutput(r.result, r.extractedData, r.kernelBrowser))
          \/ LET r == after("Error")
             IN EnterFinally(i, r,
                    ExtractFailureOutput(r.result, r.extractedData, r.kernelBrowser))
    /\ UNCHANGED <<sessions, profiles, clock, apiKey>>

\* Faulty variant: the finally block terminates the oldest session.
CleanupTargetMutant(kb) == SessionId(1)

\* The session the finally block asks to terminate: kernelBrowser.session_id
\* of the handler's own local variable.
CleanupTarget(kb) == kb.session_id

\* finally: await kernel.browsers.deleteByID(kernelBrowser.session_id);
\* if (agent) agent.stop(); the catch block around both; then the return.
ExecFinally(i) ==
    /\ invs[i].op = "execute-task-with-profile"
    /\ invs[i].pc = "finally.deleteByID"
    /\ LET sid == CleanupTarget(invs[i].kernelBrowser)
       IN \E ok \in DeleteOutcomes(sid) :
            LET r1 == [invs[i] EXCEPT !.log = Logged(i, "deleteByID", sid, Res(ok))]
                r2 == IF StopReached(ok, invs[i].agent)
                      THEN [r1 EXCEPT !.log = Append(r1.log, Call("stop", sid, "pending")),
                                      !.stop = "pending"]
                      ELSE r1
            IN /\ DeleteByID(sid, ok)
               /\ Return(i, r2, FinallyOutput(invs[i].pending, ok))
    /\ UNCHANGED <<clock, apiKey>>

\* The promise of the agent.stop() call, which nothing awaits, settles.
AgentStopSettles(i) ==
    /\ invs[i].stop = "pending"
    /\ \E how \in {"resolved", "rejected"} : Upd(i, [invs[i] EXCEPT !.stop = how])
    /\ UNCHANGED <<sessions, profiles, clock, apiKey>>

\* --------------------------------------------------- get-payload-schemas
NoFields == [null |-> TRUE]

PayloadField(type, required, description) ==
    [type |-> type, required |-> required, description |-> description]

PayloadSchemasMutant ==
    [k \in {"create-profile-browser", "end-session-and-save-profile",
            "execute-task-with-profile"} |->
        [description |-> "", payload |-> NoFields]]

PayloadSchemas ==
    ("create-profile-browser" :>
        [description |-> "Creates a new browser with a persistent profile for authentication",
         payload |-> NoFields])
    @@ ("end-session-and-save-profile" :>
        [description |-> "Ends a browser session and saves the profile state",
         payload |-> [session_id |-> PayloadField("string", TRUE,
                          "The browser session ID to terminate")]])
    @@ ("execute-task-with-profile" :>
        [description |-> "Executes automated tasks using an existing profile with pre-loaded authentication",
         payload |->
            [profile_name |-> PayloadField("string", TRUE,
                 "The profile name to use (from create-profile-browser)"),
             task |-> PayloadField("string", TRUE,
                 "Natural language description of the task to execute"),
             url |-> PayloadField("string", FALSE,
                 "Optional starting URL for the browser"),
             extract_instructions |-> PayloadField("string", FALSE,
                 "Optional instructions for extracting structured data after task completion")]])
    @@ ("get-payload-schemas" :>
        [description |-> "Returns the expected payload format for each action",
         payload |-> NoFields])

GetPayloadSchemas(i) ==
    /\ CanInvoke(i)
    /\ Return(i, [IdleInv EXCEPT !.op = "get-payload-schemas"], PayloadSchemas)
    /\ UNCHANGED <<sessions, profiles, clock, apiKey>>

\* ------------------------------------------------------------ the system
\* Date.now() advances.
Tick ==
    /\ clock < MaxTime
    /\ clock' = clock + 1
    /\ UNCHANGED <<invs, sessions, profiles, apiKey>>

Init ==
    /\ invs = [i \in Inv |-> IdleInv]
    /\ sessions = <<>>
    /\ profiles = <<>>
    /\ clock = 0
    /\ apiKey \in BOOLEAN

Next ==
    \/ Tick
    \/ \E i \in DOMAIN invs : CreateProfileBrowserInvoke(i)
    \/ \E i \in DOMAIN invs : CreateProfilesCreate(i)
    \/ \E i \in DOMAIN invs : CreateBrowsersCreate(i)
    \/ \E i \in DOMAIN invs : EndSessionInvoke(i)
    \/ \E i \in DOMAIN invs : EndDeleteByID(i)
    \/ \E i \in DOMAIN invs : ExecuteTaskInvoke(i)
    \/ \E i \in DOMAIN invs : ExecBrowsersCreate(i)
    \/ \E i \in DOMAIN invs : ExecStartBrowserAgent(i)
    \/ \E i \in DOMAIN invs : ExecAct(i)
    \/ \E i \in DOMAIN invs : ExecExtract(i)
    \/ \E i \in DOMAIN invs : ExecFinally(i)
    \/ \E i \in DOMAIN invs : AgentStopSettles(i)
    \/ \E i \in DOMAIN invs : GetPayloadSchemas(i)

Spec == Init /\ [][Next]_vars

\* ------------------------------------------------ external calls settle
\* Every awaited external call of invocation i, and its unawaited
\* agent.stop(), eventually resolves or rejects; the handler then runs on to
\* its next await or to its end.
CallsSettle(i) ==
    /\ WF_vars(CreateProfilesCreate(i))
    /\ WF_vars(CreateBrowsersCreate(i))
    /\ WF_vars(EndDeleteByID(i))
    /\ WF_vars(ExecBrowsersCreate(i))
    /\ WF_vars(ExecStartBrowserAgent(i))
    /\ WF_vars(ExecAct(i))
    /\ WF_vars(ExecExtract(i))
    /\ WF_vars(ExecFinally(i))
    /\ WF_vars(AgentStopSettles(i))

SpecFair == Spec /\ \A i \in Inv : CallsSettle(i)

\* ------------------------------------------------- the README's workflow
\* A caller that follows the workflow: it creates the profile browser, ends
\* that session with the identifier it got back, then runs a task with the
\* profile name it got back, waiting for each result before the next action.
Scenario ==
    <<"create-profile-browser", "end-session-and-save-profile",
      "execute-task-with-profile">>

Quiet ==
    \A j \in DOMAIN invs : invs[j].op # "none" => invs[j].outcome # "pending"

ScenarioEndPayload == [session_id |-> invs[1].ret.session_id]

ScenarioExecPayloads ==
    [profile_name : {invs[1].ret.profile_name},
     task : {"task"},
     url : ExecUrls,
     extract_instructions : {Undefined, "instructions"}]

InitSeq ==
    /\ invs = [i \in DOMAIN Scenario |-> IdleInv]
    /\ sessions = <<>>
    /\ profiles = <<>>
    /\ clock = 0
    /\ apiKey \in BOOLEAN

NextSeq ==
    \/ Tick
    \/ CreateProfileBrowserInvoke(1)
    \/ CreateProfilesCreate(1)
    \/ CreateBrowsersCreate(1)
    \/ invs[1].outcome = "returned" /\ EndSessionStart(2, ScenarioEndPayload)
    \/ EndDeleteByID(2)
    \/ /\ invs[1].outcome = "returned"
       /\ invs[2].op # "none" /\ Quiet
       /\ \E payload \in ScenarioExecPayloads : ExecuteTaskStart(3, payload)
    \/ ExecBrowsersCreate(3)
    \/ ExecStartBrowserAgent(3)
    \/ ExecAct(3)
    \/ ExecExtract(3)
    \/ ExecFinally(3)
    \/ AgentStopSettles(3)

SpecSeq == InitSeq /\ [][NextSeq]_vars

\* ---------------------------------------------------------------- claims
IsCreate(i) == invs[i].op = "create-profile-browser"

IsEnd(i) == invs[i].op = "end-session-and-save-profile"

IsExec(i) == invs[i].op = "execute-task-with-profile"

Done(i) == invs[i].outcome # "pending"

Returned(i) == invs[i].outcome = "returned"

Threw(i) == invs[i].outcome = "thrown"

\* Invocation i made the call `name` and it ended with `res`.
Had(i, name, res) == \E k \in CallsOf(i, name) : invs[i].log[k].res = res

\* The sessions the service opened for invocation i.
SessionsOf(i) == {k \in DOMAIN sessions : sessions[k].invocation_id = i}

\* The task ran: the invocation is on one of the paths normal success, task
\* failure, extraction failure.
TaskRan(i) == Count(i, "act") = 1

\* C1: in execute-task-with-profile, whenever a session was created, the
\* cleanup -- one termination request and one agent stop -- has been invoked
\* exactly once when the operation returns, on each of the paths normal
\* success, task failure and extraction failure.
C1_CleanupExactlyOnce ==
    \A i \in DOMAIN invs :
        (IsExec(i) /\ Done(i) /\ SessionsOf(i) # {} /\ TaskRan(i))
            => /\ Count(i, "deleteByID") = 1
               /\ Count(i, "stop") = 1

\* C2: execute-task-with-profile without ANTHROPIC_API_KEY returns
\* {success: false, error: <message>} and makes no call to the browser service
\* (no session is created) and none to the agent.
C2_NoKeyNoCalls ==
    \A i \in DOMAIN invs :
        (IsExec(i) /\ ~apiKey)
            => /\ Returned(i)
               /\ DOMAIN invs[i].ret = {"success", "error"}
               /\ invs[i].ret.success = FALSE
               /\ Truthy(invs[i].ret.error)
               /\ invs[i].log = <<>>
               /\ SessionsOf(i) = {}

C2_Witness ==
    \E i \in DOMAIN invs :
        /\ IsExec(i) /\ ~apiKey /\ Returned(i)
        /\ invs[i].payload # NoPayload
        /\ Truthy(invs[i].payload.profile_name) /\ Truthy(invs[i].payload.task)

\* C3 as stated: nothing escapes an operation as an unhandled fault -- every
\* invocation of each of the four operations ends by returning a result, never
\* by throwing, whatever the external calls did.
C3_NothingThrows ==
    \A i \in DOMAIN invs : Done(i) => Returned(i)

\* C3 as amended: end-session-and-save-profile, execute-task-with-profile and
\* get-payload-schemas always end by returning, the first two a result with a
\* boolean success flag (and an error message when execute-task-with-profile
\* fails); create-profile-browser throws exactly when profile creation failed
\* with a non-conflict error or session creation failed, and returns its
\* output otherwise.
C3_ThrowsOnlyFromCreate ==
    \A i \in DOMAIN invs :
        Done(i) =>
            /\ Threw(i) <=>
                  /\ IsCreate(i)
                  /\ \/ Had(i, "profiles.create", "Error")
                     \/ Had(i, "browsers.create", "Error")
            /\ (Returned(i) /\ (IsEnd(i) \/ IsExec(i)))
                  => /\ "success" \in DOMAIN invs[i].ret
                     /\ invs[i].ret.success \in BOOLEAN
            /\ (Returned(i) /\ IsExec(i) /\ ~invs[i].ret.success)
                  => /\ "error" \in DOMAIN invs[i].ret
                     /\ Truthy(invs[i].ret.error)
            /\ (Returned(i) /\ IsCreate(i))
                  => DOMAIN invs[i].ret =
                        {"browser_live_view_url", "profile_name", "session_id"}

C3_Witness ==
    \E i, j \in DOMAIN invs :
        /\ IsExec(i) /\ Returned(i)
        /\ Had(i, "act", "Error") /\ Had(i, "deleteByID", "Error")
        /\ IsCreate(j) /\ Threw(j) /\ Had(j, "browsers.create", "Error")

C5_ExtractFailureKeepsSuccess ==
    \A i \in DOMAIN invs :
        (IsExec(i) /\ Done(i) /\ Had(i, "act", "ok") /\ Had(i, "extract", "Error"))
            => /\ Returned(i)
               /\ invs[i].ret.success = TRUE
               /\ invs[i].ret.task_result \in ActResults
               /\ invs[i].ret.task_result = invs[i].result
               /\ invs[i].ret.extracted_data = Null
               /\ "error" \notin DOMAIN invs[i].ret

C5_Witness ==
    \E i \in DOMAIN invs :
        /\ IsExec(i) /\ Returned(i)
        /\ Had(i, "act", "ok") /\ Had(i, "extract", "Error")

\* What the try and catch blocks of execute-task-with-profile determine, read
\* off the outcomes of the calls made before the cleanup.
SessionIdOf(i) ==
    IF SessionsOf(i) = {} THEN Undefined
    ELSE sessions[CHOOSE k \in SessionsOf(i) : TRUE].session_id

PrimaryOutput(i) ==
    IF Had(i, "browsers.create", "Error")
    THEN [success |-> FALSE, error |-> "browsers.create failed",
          session_id |-> Undefined]
    ELSE IF Had(i, "startBrowserAgent", "Error")
    THEN [success |-> FALSE, error |-> "startBrowserAgent failed",
          session_id |-> SessionIdOf(i)]
    ELSE IF Had(i, "act", "Error")
    THEN [success |-> FALSE, error |-> "act failed", session_id |-> SessionIdOf(i)]
    ELSE [success |-> TRUE,
          task_result |-> CHOOSE v \in ActResults : TRUE,
          extracted_data |-> IF Had(i, "extract", "ok")
                             THEN CHOOSE v \in ExtractResults : TRUE ELSE Null,
          session_id |-> SessionIdOf(i)]

\* C6: a failing session termination or agent stop in the cleanup of
\* execute-task-with-profile is not re-raised and leaves the result as the try
\* or catch block determined it: success, task_result, extracted_data, error
\* and session_id are what they are when the cleanup succeeds.
C6_CleanupKeepsResult ==
    \A i \in DOMAIN invs :
        (IsExec(i) /\ Done(i) /\ Count(i, "browsers.create") = 1)
            => /\ Returned(i)
               /\ invs[i].ret = PrimaryOutput(i)

C6_Witness ==
    \E i, j \in DOMAIN invs :
        /\ IsExec(i) /\ Returned(i) /\ Had(i, "act", "ok")
        /\ Had(i, "deleteByID", "Error")
        /\ IsExec(j) /\ Returned(j) /\ invs[j].stop = "rejected"

\* C7: end-session-and-save-profile with no payload, or with a missing or
\* empty session_id, returns {success: false} and makes no call to the
\* browser service.
C7_MissingIdNoCall ==
    \A i \in DOMAIN invs :
        (/\ IsEnd(i)
         /\ \/ invs[i].payload = NoPayload
            \/ invs[i].payload.session_id \in {Undefined, EmptyStr})
            => /\ Returned(i)
               /\ invs[i].ret = [success |-> FALSE]
               /\ invs[i].log = <<>>

C7_Witness ==
    \E i, j \in DOMAIN invs :
        /\ IsEnd(i) /\ Returned(i) /\ invs[i].payload = NoPayload
        /\ IsEnd(j) /\ Returned(j) /\ invs[j].payload # NoPayload
        /\ invs[j].payload.session_id = EmptyStr

\* C8: end-session-and-save-profile with a non-empty session_id never throws;
\* it issues exactly one termination request, for that identifier, and no other
\* call, and returns {success: true} if that request succeeded and
\* {success: false} if it failed.
C8_EndReportsTermination ==
    \A i \in DOMAIN invs :
        (IsEnd(i) /\ Done(i) /\ invs[i].payload # NoPayload
                  /\ Truthy(invs[i].payload.session_id))
            => /\ Returned(i)
               /\ Len(invs[i].log) = 1
               /\ invs[i].log[1].call = "deleteByID"
               /\ invs[i].log[1].arg = invs[i].payload.session_id
               /\ invs[i].ret = [success |-> (invs[i].log[1].res = "ok")]

C8_Witness ==
    \E i, j \in DOMAIN invs :
        /\ IsCreate(i) /\ Returned(i)
        /\ IsEnd(j) /\ Returned(j) /\ invs[j].ret = [success |-> TRUE]
        /\ invs[j].log[1].arg = invs[i].ret.session_id

\* A required payload field of invocation i is absent.
RequiredFieldAbsent(i) ==
    /\ invs[i].payload # NoPayload
    /\ \/ IsEnd(i) /\ invs[i].payload.session_id = Undefined
       \/ IsExec(i) /\ \/ invs[i].payload.profile_name = Undefined
                       \/ invs[i].payload.task = Undefined

\* C9: a missing precondition is reported, never thrown -- whenever a required
\* payload field is absent (session_id; profile_name or task, also in a payload
\* that is present) the operation returns a result with success = false.
C9_MissingFieldUnsuccessful ==
    \A i \in DOMAIN invs :
        (Done(i) /\ RequiredFieldAbsent(i))
            => /\ Returned(i)
               /\ invs[i].ret.success = FALSE

\* C10: in create-profile-browser a ConflictError of profile creation does not
\* abort the operation -- it goes on to request a session bound to the
\* generated profile name, and returns the live-view URL, the profile name and
\* the session identifier of the session it obtained.
C10_ConflictContinues ==
    \A i \in DOMAIN invs :
        (IsCreate(i) /\ Had(i, "profiles.create", "ConflictError"))
            => /\ invs[i].pc \in {"browsers.create", "done"}
               /\ Threw(i) => Had(i, "browsers.create", "Error")
               /\ Done(i) =>
                     /\ Count(i, "browsers.create") = 1
                     /\ \A c \in CallsOf(i, "browsers.create") :
                           invs[i].log[c].arg = invs[i].profileName
               /\ Returned(i) =>
                     \E k \in SessionsOf(i) :
                        /\ SessionsOf(i) = {k}
                        /\ sessions[k].profile = invs[i].profileName
                        /\ invs[i].ret.profile_name = invs[i].profileName
                        /\ invs[i].ret.session_id = sessions[k].session_id
                        /\ invs[i].ret.browser_live_view_url
                              \in {EmptyStr, "https://live/" \o sessions[k].session_id}

C10_Witness ==
    \E i \in DOMAIN invs :
        /\ IsCreate(i) /\ Returned(i)
        /\ Had(i, "profiles.create", "ConflictError")
        /\ invs[i].ret.browser_live_view_url # EmptyStr

\* C11: in create-profile-browser a non-conflict failure of profile creation,
\* or a failure of session creation, aborts the operation, and no aborted
\* invocation leaves a session behind: browsers.create is called only after
\* profiles.create resolved or was rejected with a ConflictError.
C11_AbortLeavesNoSession ==
    \A i \in DOMAIN invs :
        IsCreate(i) =>
            /\ Had(i, "profiles.create", "Error")
                  => /\ Threw(i)
                     /\ Count(i, "browsers.create") = 0
            /\ Had(i, "browsers.create", "Error") => Threw(i)
            /\ Threw(i) => SessionsOf(i) = {}
            /\ \A c \in CallsOf(i, "browsers.create") :
                  /\ c = 2
                  /\ invs[i].log[1].call = "profiles.create"
                  /\ invs[i].log[1].res \in {"ok", "ConflictError"}

C11_Witness ==
    \E i, j \in DOMAIN invs :
        /\ IsCreate(i) /\ Threw(i) /\ Had(i, "profiles.create", "Error")
        /\ IsCreate(j) /\ Threw(j) /\ Had(j, "browsers.create", "Error")

\* An end-session-and-save-profile invocation terminated session k.
EndedByCaller(k) ==
    \E j \in DOMAIN invs :
        /\ IsEnd(j)
        /\ \E c \in CallsOf(j, "deleteByID") :
              /\ invs[j].log[c].arg = sessions[k].session_id
              /\ invs[j].log[c].res = "ok"

\* C12: after create-profile-browser has returned, exactly one session created
\* by it exists, with save_changes and stealth enabled; the operation itself
\* issued no termination request, and the session is open unless an
\* end-session-and-save-profile invocation has terminated it.
C12_SessionStaysOpen ==
    \A i \in DOMAIN invs :
        (IsCreate(i) /\ Returned(i)) =>
            /\ Cardinality(SessionsOf(i)) = 1
            /\ Count(i, "deleteByID") = 0
            /\ \A k \in SessionsOf(i) :
                  /\ sessions[k].save_changes
                  /\ sessions[k].stealth
                  /\ sessions[k].session_id = invs[i].ret.session_id
                  /\ sessions[k].open \/ EndedByCaller(k)

C12_Witness ==
    \E i, j \in DOMAIN invs :
        /\ IsCreate(i) /\ Returned(i)
        /\ \A k \in SessionsOf(i) : sessions[k].open
        /\ IsExec(j) /\ Returned(j) /\ Had(j, "deleteByID", "ok")

\* The stored state of profile n changes in this step.
ProfileChanged(n) == profiles'[n] # profiles[n]

\* In this step a session that create-profile-browser opened on profile n with
\* save_changes is terminated.
SavingSessionTerminated(n) ==
    \E k \in DOMAIN sessions :
        /\ sessions[k].profile = n
        /\ sessions[k].save_changes
        /\ IsCreate(sessions[k].invocation_id)
        /\ sessions[k].open /\ ~sessions'[k].open

\* This step is a step of an execute-task-with-profile invocation.
ExecStep ==
    \E i \in DOMAIN invs :
        /\ invs'[i] # invs[i]
        /\ invs'[i].op = "execute-task-with-profile"

\* C13: the stored state of a profile changes only when a session that
\* create-profile-browser opened with save_changes is terminated; every session
\* of execute-task-with-profile has save_changes disabled, and no step of such
\* an invocation, its cleanup termination included, changes a profile, under
\* any interleaving.
C13_OnlySavingSessionsChangeProfiles ==
    /\ [](\A k \in DOMAIN sessions :
            IsExec(sessions[k].invocation_id) => ~sessions[k].save_changes)
    /\ [][\A n \in DOMAIN profiles :
            ProfileChanged(n) => SavingSessionTerminated(n)]_vars
    /\ [][ExecStep => \A n \in DOMAIN profiles : ~ProfileChanged(n)]_vars

C13_Witness ==
    \E i, j \in DOMAIN invs :
        /\ IsCreate(j) /\ Returned(j)
        /\ IsExec(i) /\ Returned(i) /\ Had(i, "deleteByID", "ok")
        /\ invs[i].payload.profile_name = invs[j].profileName
        /\ invs[j].profileName \in DOMAIN profiles
        /\ profiles[invs[j].profileName] = 0

\* Some profile has been saved to: the case in which a profile does change.
C13_SavedWitness ==
    \E n \in DOMAIN profiles : profiles[n] > 0

\* C14: when session creation, agent start or task execution fails in
\* execute-task-with-profile, the result has success = false and an error
\* message, and carries the session identifier exactly when a session had been
\* obtained: present after an agent-start or task failure, absent after a
\* session-creation failure.
C14_FailureCarriesSessionId ==
    \A i \in DOMAIN invs :
        (IsExec(i) /\ Done(i)) =>
            /\ (\/ Had(i, "browsers.create", "Error")
                \/ Had(i, "startBrowserAgent", "Error")
                \/ Had(i, "act", "Error"))
                  => /\ Returned(i)
                     /\ invs[i].ret.success = FALSE
                     /\ Truthy(invs[i].ret.error)
                     /\ "task_result" \notin DOMAIN invs[i].ret
            /\ Had(i, "browsers.create", "Error")
                  => /\ SessionsOf(i) = {}
                     /\ invs[i].ret.session_id = Undefined
            /\ (Had(i, "startBrowserAgent", "Error") \/ Had(i, "act", "Error"))
                  => /\ SessionsOf(i) # {}
                     /\ Truthy(invs[i].ret.session_id)
                     /\ invs[i].ret.session_id = SessionIdOf(i)

C14_Witness ==
    \E i, j \in DOMAIN invs :
        /\ IsExec(i) /\ Returned(i) /\ Had(i, "startBrowserAgent", "Error")
        /\ IsExec(j) /\ Returned(j) /\ Had(j, "browsers.create", "Error")

AllSucceeded(i) ==
    \A k \in DOMAIN invs[i].log : invs[i].log[k].res \notin {"Error", "ConflictError"}

\* C16: in the workflow create -> end -> execute, with the credential
\* configured and every external call succeeding, create-profile-browser
\* returns a profile name and a session S1, end-session-and-save-profile with
\* S1 returns {success: true}, and execute-task-with-profile with that profile
\* name returns success: true, the task result and the identifier S2 of the
\* session it created itself, which is not S1.
C16_Workflow ==
    \A i, j, k \in DOMAIN invs :
        /\ (IsCreate(i) /\ Returned(i) /\ AllSucceeded(i)) =>
               /\ Truthy(invs[i].ret.profile_name)
               /\ invs[i].ret.session_id = SessionIdOf(i)
               /\ Truthy(invs[i].ret.session_id)
        /\ (/\ IsCreate(i) /\ Returned(i) /\ AllSucceeded(i)
            /\ IsEnd(j) /\ Done(j) /\ AllSucceeded(j)
            /\ invs[j].payload.session_id = invs[i].ret.session_id) =>
               /\ Returned(j)
               /\ invs[j].ret = [success |-> TRUE]
        /\ (/\ IsCreate(i) /\ Returned(i) /\ AllSucceeded(i)
            /\ IsEnd(j) /\ Done(j) /\ AllSucceeded(j)
            /\ invs[j].payload.session_id = invs[i].ret.session_id
            /\ IsExec(k) /\ Done(k) /\ AllSucceeded(k) /\ apiKey
            /\ invs[k].payload.profile_name = invs[i].ret.profile_name) =>
               /\ Returned(k)
               /\ invs[k].ret.success = TRUE
               /\ invs[k].ret.task_result \in ActResults
               /\ invs[k].ret.session_id = SessionIdOf(k)
               /\ Truthy(invs[k].ret.session_id)
               /\ invs[k].ret.session_id # invs[i].ret.session_id

C16_Witness ==
    /\ apiKey
    /\ IsCreate(1) /\ Returned(1) /\ AllSucceeded(1)
    /\ IsEnd(2) /\ Returned(2) /\ Had(2, "deleteByID", "ok")
    /\ invs[2].payload.session_id = invs[1].ret.session_id
    /\ IsExec(3) /\ Returned(3) /\ AllSucceeded(3) /\ Had(3, "act", "ok")
    /\ invs[3].payload.profile_name = invs[1].ret.profile_name
    /\ invs[3].ret.success = TRUE

IsSchemas(i) == invs[i].op = "get-payload-schemas"

\* The step in which invocation i of get-payload-schemas runs.
SchemasStep(i) == invs[i].op = "none" /\ invs'[i].op = "get-payload-schemas"

\* C17: get-payload-schemas is a pure function. It makes no external call,
\* changes nothing but its own result, returns the same mapping on every
\* call, the mapping's keys are exactly the four action names, and the
\* payload is the null marker exactly for create-profile-browser and
\* get-payload-schemas.
C17_SchemasPure ==
    /\ [](\A i, j \in DOMAIN invs :
            IsSchemas(i) =>
                /\ Returned(i)
                /\ invs[i].log = <<>>
                /\ invs[i].stop = "none"
                /\ SessionsOf(i) = {}
                /\ DOMAIN invs[i].ret =
                      {"create-profile-browser", "end-session-and-save-profile",
                       "execute-task-with-profile", "get-payload-schemas"}
                /\ \A k \in DOMAIN invs[i].ret :
                      (invs[i].ret[k].payload = NoFields)
                          <=> k \in {"create-profile-browser", "get-payload-schemas"}
                /\ IsSchemas(j) => invs[j].ret = invs[i].ret)
    /\ [][\A i \in DOMAIN invs :
            SchemasStep(i) =>
                /\ UNCHANGED <<sessions, profiles, clock, apiKey>>
                /\ \A j \in DOMAIN invs \ {i} : invs'[j] = invs[j]]_vars

C17_Witness ==
    \E i, j \in DOMAIN invs :
        /\ i # j
        /\ IsSchemas(i) /\ Returned(i)
        /\ IsSchemas(j) /\ Returned(j)

\* C18 as stated: whenever execute-task-with-profile started the agent,
\* agent.stop() has been invoked by the time the operation returns, also when
\* the deleteByID of the finally block was rejected.
C18_StopBeforeReturn ==
    \A i \in DOMAIN invs :
        (IsExec(i) /\ Done(i) /\ Had(i, "startBrowserAgent", "ok"))
            => Count(i, "stop") >= 1

\* Position of an external call in the handler's text.
StepRank(name) ==
    CASE name = "browsers.create" -> 1
      [] name = "startBrowserAgent" -> 2
      [] name = "act" -> 3
      [] name = "extract" -> 4
      [] name = "deleteByID" -> 5
      [] name = "stop" -> 6

\* C19 as stated: one invocation of execute-task-with-profile makes its
\* external calls in the fixed order session creation, agent start, task,
\* extraction, session termination, agent stop, each after the previous one
\* has settled, and it has not returned while one of them is still unsettled.
C19_LinearAndAwaited ==
    \A i \in DOMAIN invs :
        IsExec(i) =>
            /\ \A k, l \in DOMAIN invs[i].log :
                  k < l => /\ StepRank(invs[i].log[k].call) < StepRank(invs[i].log[l].call)
                           /\ invs[i].log[k].res # "pending"
            /\ Done(i) => invs[i].stop # "pending"

\* C20: one invocation of execute-task-with-profile calls agent.extract at
\* most once, only when extract_instructions were given and only after
\* agent.act has succeeded; it does not call it when act failed or when no
\* instructions were given.
C20_ExtractOnlyAfterAct ==
    \A i \in DOMAIN invs :
        (IsExec(i) /\ invs[i].log # <<>>) =>
            /\ Count(i, "extract") <= 1
            /\ \A k \in CallsOf(i, "extract") :
                  /\ Truthy(invs[i].payload.extract_instructions)
                  /\ invs[i].log[k].arg = invs[i].payload.extract_instructions
                  /\ \E l \in CallsOf(i, "act") :
                        l < k /\ invs[i].log[l].res = "ok"
            /\ Had(i, "act", "Error") => Count(i, "extract") = 0
            /\ ~Truthy(invs[i].payload.extract_instructions)
                  => Count(i, "extract") = 0

C20_Witness ==
    \E i, j \in DOMAIN invs :
        /\ IsExec(i) /\ Done(i) /\ Had(i, "act", "ok") /\ Count(i, "extract") = 1
        /\ IsExec(j) /\ Done(j) /\ Had(j, "act", "ok") /\ Count(j, "extract") = 0
        /\ invs[j].payload.extract_instructions = Undefined

\* C21: execute-task-with-profile returns success = true only if
\* browsers.create, startBrowserAgent and agent.act all resolved; the result
\* then carries act's result as task_result and the identifier of the
\* session this invocation created, and has no error field.
C21_SuccessMeansTaskRan ==
    \A i \in DOMAIN invs :
        (IsExec(i) /\ Returned(i) /\ invs[i].ret.success = TRUE) =>
            /\ Had(i, "browsers.create", "ok")
            /\ Had(i, "startBrowserAgent", "ok")
            /\ Had(i, "act", "ok")
            /\ ~Had(i, "browsers.create", "Error")
            /\ ~Had(i, "startBrowserAgent", "Error")
            /\ ~Had(i, "act", "Error")
            /\ invs[i].ret.task_result = invs[i].result
            /\ invs[i].ret.task_result \in ActResults
            /\ invs[i].ret.session_id = SessionIdOf(i)
            /\ Truthy(invs[i].ret.session_id)
            /\ "error" \notin DOMAIN invs[i].ret

C21_Witness ==
    \E i, j \in DOMAIN invs :
        /\ IsExec(i) /\ Returned(i) /\ invs[i].ret.success = TRUE
        /\ Had(i, "act", "ok")
        /\ IsExec(j) /\ Returned(j) /\ invs[j].ret.success = FALSE
        /\ Had(j, "act", "Error")

\* The step in which the finally block of invocation i runs.
FinallyStep(i) ==
    /\ IsExec(i)
    /\ invs[i].pc = "finally.deleteByID"
    /\ invs'[i].pc # "finally.deleteByID"

\* C22: under any interleaving, an invocation of execute-task-with-profile
\* asks to terminate only the session it created itself, never a session of
\* another invocation, and its cleanup closes no session of another
\* invocation; several sessions can be open at once.
C22_CleanupOnlyOwnSession ==
    /\ [](\A i \in DOMAIN invs :
            IsExec(i) =>
                \A k \in CallsOf(i, "deleteByID") :
                    /\ invs[i].log[k].arg = SessionIdOf(i)
                    /\ \A s \in DOMAIN sessions :
                          sessions[s].session_id = invs[i].log[k].arg
                              => sessions[s].invocation_id = i)
    /\ [][\A i \in DOMAIN invs :
            FinallyStep(i) =>
                /\ Len(sessions') = Len(sessions)
                /\ \A s \in DOMAIN sessions :
                      sessions'[s] # sessions[s]
                          => sessions[s].invocation_id = i]_vars

C22_Witness ==
    \E i, j \in DOMAIN invs :
        /\ i # j
        /\ IsExec(i) /\ Done(i) /\ Had(i, "deleteByID", "ok")
        /\ SessionsOf(j) # {} /\ IsOpen(SessionIdOf(j))
        /\ ~IsOpen(SessionIdOf(i))
        /\ invs[j].op \in {"execute-task-with-profile", "create-profile-browser"}

\* C23: what create-profile-browser returns identifies what it created. The
\* returned profile_name is the name passed to profiles.create and bound to
\* the session, the returned session_id is the identifier of the session it
\* created, and end-session-and-save-profile called with that session_id
\* asks to terminate exactly that session.
C23_OutputIdentifiesCreated ==
    \A i, j \in DOMAIN invs :
        (IsCreate(i) /\ Returned(i)) =>
            /\ Count(i, "profiles.create") = 1
            /\ \A k \in CallsOf(i, "profiles.create") :
                  invs[i].log[k].arg = invs[i].ret.profile_name
            /\ Cardinality(SessionsOf(i)) = 1
            /\ \A s \in SessionsOf(i) :
                  /\ sessions[s].profile = invs[i].ret.profile_name
                  /\ sessions[s].session_id = invs[i].ret.session_id
            /\ \A s \in DOMAIN sessions :
                  sessions[s].session_id = invs[i].ret.session_id
                      => sessions[s].invocation_id = i
            /\ (/\ IsEnd(j) /\ Done(j) /\ invs[j].payload # NoPayload
                /\ invs[j].payload.session_id = invs[i].ret.session_id) =>
                   /\ Count(j, "deleteByID") = 1
                   /\ \A k \in CallsOf(j, "deleteByID") :
                         invs[j].log[k].arg = SessionIdOf(i)
                   /\ Had(j, "deleteByID", "ok") => ~IsOpen(SessionIdOf(i))

C23_Witness ==
    \E i, j \in DOMAIN invs :
        /\ IsCreate(i) /\ Returned(i)
        /\ IsEnd(j) /\ Returned(j) /\ Had(j, "deleteByID", "ok")
        /\ invs[j].payload.session_id = invs[i].ret.session_id
        /\ ~IsOpen(SessionIdOf(i))

\* C24: when browsers.create fails in execute-task-with-profile, the
\* invocation makes no further external call -- no startBrowserAgent, act,
\* extract, deleteByID or stop -- and returns its failure result.
C24_NoCallsAfterFailedCreate ==
    \A i \in DOMAIN invs :
        (IsExec(i) /\ Had(i, "browsers.create", "Error")) =>
            /\ Len(invs[i].log) = 1
            /\ \A name \in {"startBrowserAgent", "act", "extract",
                              "deleteByID", "stop"} : Count(i, name) = 0
            /\ invs[i].stop = "none"
            /\ SessionsOf(i) = {}
            /\ Returned(i)
            /\ invs[i].ret.success = FALSE
            /\ "error" \in DOMAIN invs[i].ret
            /\ invs[i].ret.session_id = Undefined

C24_Witness ==
    \E i, j \in DOMAIN invs :
        /\ IsExec(i) /\ Returned(i) /\ Had(i, "browsers.create", "Error")
        /\ i # j /\ SessionsOf(j) # {} /\ IsOpen(SessionIdOf(j))

Started(i) == invs[i].op # "none"

\* C25 as stated: provided every external call settles, every invocation of
\* each operation eventually returns a result.
C25_EventuallyReturns ==
    \A i \in Inv : Started(i) ~> Returned(i)

\* C25 as amended: provided every external call settles, every invocation
\* eventually completes -- it returns a result or, for create-profile-browser
\* only, throws the error of a failed external call -- after at most six
\* external calls.
C25_EventuallyCompletes ==
    /\ \A i \in Inv : Started(i) ~> Done(i)
    /\ [](\A i \in Inv : /\ Len(invs[i].log) <= 6
                          /\ Threw(i) => IsCreate(i))

C25_Witness ==
    \E i, j \in DOMAIN invs :
        /\ IsCreate(i) /\ Threw(i)
        /\ IsExec(j) /\ Returned(j) /\ Len(invs[j].log) = 6

====
